---- MODULE Spec2Model ----
(***************************************************************************)
(* Dispatch and delivery-retry engine of the bulk SMS system.              *)
(*                                                                         *)
(* The data store holds Campaign, Contact and Message rows; the job queue  *)
(* holds Celery jobs.  Every handler is cut at its commit points: what a   *)
(* task reads before a commit and writes at the commit are separate steps  *)
(* only where the code holds values across other workers' commits          *)
(* (execute_campaign, send_single_sms, send_bulk_sms,                      *)
(* update_campaign_stats, retry_failed_messages).  Time is abstracted: a   *)
(* job published with a countdown keeps the countdown as data and may be   *)
(* consumed at any later step.  Every queued job is delivered once.        *)
(***************************************************************************)
EXTENDS Integers, FiniteSets, Sequences, Bags, TLC

VARIABLES
    contacts,   \* Contact rows, by id: [campaign, is_valid]
    campaigns,  \* Campaign rows, by id
    messages,   \* Message rows, by id
    exec,       \* API requests in flight (execute, update, delete), by request slot
    queue,      \* bag of published Celery jobs [task, arg, countdown]
    bulkRun,    \* bag of send_bulk_sms runs between two batches
    sending,    \* bag of send_single_sms runs waiting for the gateway
    statsRun,   \* bag of update_campaign_stats runs between read and commit
    retryRun,   \* bag of retry_failed_messages runs between enqueue and commit
    gateway,    \* per message: gateway calls made, and those that succeeded
    retryCalls, \* retry_failed requests served so far
    response    \* the last answer given to an API caller

vars == <<contacts, campaigns, messages, exec, queue, bulkRun, sending,
          statsRun, retryRun, gateway, retryCalls, response>>

(***************************************************************************)
(* Bounds of the model.                                                    *)
(***************************************************************************)
MaxContacts == 1        \* Contact rows ever created under Spec
RaceContacts == 3       \* Contact rows ever created under SpecRace
MaxExec == 2            \* execute_campaign requests in flight at once
MaxRetryCalls == 1      \* retry_failed requests served in one behaviour
Workers == 2            \* Celery tasks in progress at once
DispatchContacts == 5   \* Contact rows ever created under SpecDispatch
MaxBatch == 2           \* largest batch_size argument under SpecDispatch
FaultContacts == 2      \* Contact rows ever created under SpecFault

(***************************************************************************)
(* Program constants.                                                      *)
(***************************************************************************)
sms_rate_limit == 60
sms_batch_size == 100
sms_retry_attempts == 3
sms_retry_delay == 5

CampaignIds == {1, 2}       \* Campaign rows of the store
Dispatched == {1}           \* campaigns the callers of Spec operate on
ExecIds == 1..MaxExec

CampaignStatus == {"draft", "processing", "in_progress", "completed", "failed", "cancelled"}
MessageStatus == {"pending", "queued", "sending", "sent", "delivered", "failed", "invalid_number"}

is_active(c) == campaigns[c].status \in {"processing", "in_progress"}

(***************************************************************************)
(* Helpers on bags, sets and sequences.                                    *)
(***************************************************************************)
Put(bag, x) == bag (+) SetToBag({x})
Take(bag, x) == bag (-) SetToBag({x})
Count(bag, x) == CopiesIn(x, bag)

RECURSIVE PutSeq(_, _)
PutSeq(bag, s) == IF s = <<>> THEN bag ELSE PutSeq(Put(bag, Head(s)), Tail(s))

Min(S) == CHOOSE x \in S : \A y \in S : x <= y

RECURSIVE SortedSeq(_)
SortedSeq(S) == IF S = {} THEN <<>> ELSE <<Min(S)>> \o SortedSeq(S \ {Min(S)})

RECURSIVE Pow2(_)
Pow2(n) == IF n = 0 THEN 1 ELSE 2 * Pow2(n - 1)

Job(task, arg, countdown) == [task |-> task, arg |-> arg, countdown |-> countdown]

\* the rows of the store: ids are never reused, and the rows of a deleted campaign
\* are gone with it (cascade on Campaign.contacts and Campaign.messages)
MessageIds == {m \in DOMAIN messages : campaigns[messages[m].campaign].exists}
ContactIds == {k \in DOMAIN contacts : campaigns[contacts[k].campaign].exists}
MessagesOf(c) == {m \in MessageIds : messages[m].campaign = c}
WithStatus(c, S) == {m \in MessagesOf(c) : messages[m].status \in S}

IdleExec == [pc |-> "idle", c |-> 0, found |-> {}, data |-> "none"]
NoResponse == [op |-> "none", c |-> 0, detail |-> "none"]
Response(op, c, detail) == [op |-> op, c |-> c, detail |-> detail]

NewCampaign ==
    [status |-> "draft", total_contacts |-> 0, total_sent |-> 0,
     total_delivered |-> 0, total_failed |-> 0, total_pending |-> 0,
     started_at |-> FALSE, completed_at |-> FALSE, error_log |-> FALSE,
     exists |-> TRUE]

\* the place of a campaign whose row was deleted
DeletedCampaign == [NewCampaign EXCEPT !.exists = FALSE]

Init ==
    /\ contacts = <<>>
    /\ campaigns = [c \in CampaignIds |-> NewCampaign]
    /\ messages = <<>>
    /\ exec = [e \in ExecIds |-> IdleExec]
    /\ queue = EmptyBag
    /\ bulkRun = EmptyBag
    /\ sending = EmptyBag
    /\ statsRun = EmptyBag
    /\ retryRun = EmptyBag
    /\ gateway = <<>>
    /\ retryCalls = 0
    /\ response = NoResponse

(***************************************************************************)
(* API layer: add_contacts / upload_contacts -> create_contacts_bulk.      *)
(* A request creates n Contact rows for campaign c; valid is the number of *)
(* them whose phone number validate_phone_number accepts (the valid ones   *)
(* first; the order of the rows carries no meaning).                       *)
(***************************************************************************)
NewContact(c, ok) == [campaign |-> c, is_valid |-> ok]

RECURSIVE NewContacts(_, _, _)
NewContacts(c, n, valid) ==
    IF n = 0 THEN <<>>
    ELSE <<NewContact(c, valid > 0)>> \o NewContacts(c, n - 1, IF valid > 0 THEN valid - 1 ELSE 0)

create_contacts_bulk(c, n, valid) ==
    /\ campaigns[c].exists
    /\ contacts' = contacts \o NewContacts(c, n, valid)
    /\ campaigns' = [campaigns EXCEPT ![c].total_contacts = n,
                                      ![c].total_pending = valid]
    /\ response' = Response("add_contacts", c, "created")
    /\ UNCHANGED <<messages, exec, queue, bulkRun, sending, statsRun, retryRun, gateway, retryCalls>>

(***************************************************************************)
(* API layer: execute_campaign.  Three steps: the status check, the query  *)
(* of create_messages_for_campaign, and the flush/commit that inserts the  *)
(* Message rows, sets PROCESSING and publishes send_bulk_sms.              *)
(***************************************************************************)
HasMessage(k) == \E m \in MessageIds : messages[m].contact = k

\* a query that leaves out the filter on is_valid
ContactsWithoutMessage(c) == {k \in ContactIds : contacts[k].campaign = c /\ ~HasMessage(k)}

\* a query that leaves out the outer join on Message
ValidContacts(c) == {k \in ContactIds : contacts[k].campaign = c /\ contacts[k].is_valid}

\* select(Contact) ... is_valid == True ... outerjoin(Message) where Message.id == None
EligibleContacts(c) ==
    {k \in ContactIds : contacts[k].campaign = c /\ contacts[k].is_valid /\ ~HasMessage(k)}

\* the store without the unique index on Message.contact_id
NoUniqueIndex(found) == FALSE

\* Message.contact_id is unique: an INSERT for a contact that owns a row fails
UniqueViolation(found) == \E k \in found : HasMessage(k)

NewMessage(c, k) ==
    [campaign |-> c, contact |-> k, status |-> "pending", retry_count |-> 0,
     error_message |-> "none", api_response |-> "none",
     queued_at |-> FALSE, sent_at |-> FALSE, failed_at |-> FALSE]

NewMessages(c, ks) == [i \in 1..Len(ks) |-> NewMessage(c, ks[i])]

NoCalls == [calls |-> 0, ok |-> 0]

\* execute_campaign without its status guard
NeverRejected(c) == FALSE

\* the guard of execute_campaign on the campaign's status
ExecuteRejected(c) == campaigns[c].status \in {"processing", "in_progress"}

execute_campaign_rejected(c) ==
    /\ \E e \in ExecIds : exec[e].pc = "idle"
    /\ campaigns[c].exists
    /\ ExecuteRejected(c)
    /\ response' = Response("execute", c, "Campaign is already running")
    /\ UNCHANGED <<contacts, campaigns, messages, exec, queue, bulkRun, sending,
                   statsRun, retryRun, gateway, retryCalls>>

execute_campaign_check(e, c) ==
    /\ exec[e].pc = "idle"
    /\ \A f \in ExecIds : f < e => exec[f].pc # "idle"
    /\ campaigns[c].exists
    /\ ~ExecuteRejected(c)
    /\ exec' = [exec EXCEPT ![e] = [IdleExec EXCEPT !.pc = "checked", !.c = c]]
    /\ UNCHANGED <<contacts, campaigns, messages, queue, bulkRun, sending,
                   statsRun, retryRun, gateway, retryCalls, response>>

execute_campaign_query(e) ==
    /\ exec[e].pc = "checked"
    /\ LET c == exec[e].c
           found == EligibleContacts(c)
       IN IF found = {}
          THEN /\ exec' = [exec EXCEPT ![e] = IdleExec]
               /\ response' = Response("execute", c, "No valid contacts found in campaign")
          ELSE /\ exec' = [exec EXCEPT ![e].pc = "queried", ![e].found = found]
               /\ UNCHANGED response
    /\ UNCHANGED <<contacts, campaigns, messages, queue, bulkRun, sending,
                   statsRun, retryRun, gateway, retryCalls>>

execute_campaign_commit(e) ==
    /\ exec[e].pc = "queried"
    /\ LET c == exec[e].c
           found == exec[e].found
       IN IF UniqueViolation(found) \/ ~campaigns[c].exists
          THEN \* IntegrityError at flush (or the campaign row is gone): rollback, HTTP 500
               /\ response' = Response("execute", c, "Failed to execute campaign")
               /\ UNCHANGED <<campaigns, messages, queue, gateway>>
          ELSE /\ messages' = messages \o NewMessages(c, SortedSeq(found))
               /\ gateway' = gateway \o [i \in 1..Cardinality(found) |-> NoCalls]
               /\ campaigns' = [campaigns EXCEPT ![c].status = "processing"]
               /\ queue' = Put(queue, Job("send_bulk_sms", c, 0))
               /\ response' = Response("execute", c, "queued")
    /\ exec' = [exec EXCEPT ![e] = IdleExec]
    /\ UNCHANGED <<contacts, bulkRun, sending, statsRun, retryRun, retryCalls>>

\* send_bulk_sms.delay raises after the commit (broker unavailable): the rollback
\* finds nothing to undo, HTTP 500
execute_campaign_enqueue_fails(e) ==
    /\ exec[e].pc = "queried"
    /\ ~UniqueViolation(exec[e].found)
    /\ campaigns[exec[e].c].exists
    /\ LET c == exec[e].c
           found == exec[e].found
       IN /\ messages' = messages \o NewMessages(c, SortedSeq(found))
          /\ gateway' = gateway \o [i \in 1..Cardinality(found) |-> NoCalls]
          /\ campaigns' = [campaigns EXCEPT ![c].status = "processing"]
          /\ response' = Response("execute", c, "Failed to execute campaign")
    /\ exec' = [exec EXCEPT ![e] = IdleExec]
    /\ UNCHANGED <<contacts, queue, bulkRun, sending, statsRun, retryRun, retryCalls>>

(***************************************************************************)
(* API layer: retry_failed publishes a retry_failed_messages job.          *)
(***************************************************************************)
retry_failed(c) ==
    /\ campaigns[c].exists
    /\ retryCalls < MaxRetryCalls
    /\ retryCalls' = retryCalls + 1
    /\ queue' = Put(queue, Job("retry_failed_messages", c, 0))
    /\ response' = Response("retry", c, "queued")
    /\ UNCHANGED <<contacts, campaigns, messages, exec, bulkRun, sending,
                   statsRun, retryRun, gateway>>

\* a worker process runs one task at a time
Busy == BagCardinality(bulkRun) + BagCardinality(sending)
        + BagCardinality(statsRun) + BagCardinality(retryRun)
WorkerFree == Busy < Workers

(***************************************************************************)
(* Celery task send_bulk_sms: the dispatch run.  The first step commits    *)
(* IN_PROGRESS and reads the PENDING messages; each later step publishes   *)
(* one batch of send_single_sms jobs and, unless it was the last batch,    *)
(* sleeps.                                                                 *)
(***************************************************************************)
PendingMessages(c) == SortedSeq(WithStatus(c, {"pending"}))

SendJobs(ids) == [i \in 1..Len(ids) |-> Job("send_single_sms", ids[i], 0)]

\* batch_size = batch_size or settings.sms_batch_size (0 stands for None)
BatchSize(b) == IF b = 0 THEN sms_batch_size ELSE b

\* a pause that does not grow with the batch
SleepPerMessage(batch_size) == (60 * 1000) \div sms_rate_limit

\* sleep_time = (batch_size / settings.sms_rate_limit) * 60, in milliseconds
SleepTime(batch_size) == (batch_size * 60 * 1000) \div sms_rate_limit

send_bulk_sms_start(c, b) ==
    /\ WorkerFree
    /\ Count(queue, Job("send_bulk_sms", c, 0)) > 0
    /\ LET msgs == PendingMessages(c)
       IN IF ~campaigns[c].exists
          THEN \* Campaign not found
               UNCHANGED <<campaigns, bulkRun>>
          ELSE IF msgs = <<>>
          THEN /\ campaigns' = [campaigns EXCEPT ![c].status = "completed",
                                                 ![c].started_at = TRUE,
                                                 ![c].completed_at = TRUE]
               /\ UNCHANGED bulkRun
          ELSE /\ campaigns' = [campaigns EXCEPT ![c].status = "in_progress",
                                                 ![c].started_at = TRUE]
               /\ bulkRun' = Put(bulkRun, [c |-> c, msgs |-> msgs, i |-> 0,
                                           batch_size |-> BatchSize(b), slept |-> 0])
    /\ queue' = Take(queue, Job("send_bulk_sms", c, 0))
    /\ UNCHANGED <<contacts, messages, exec, sending, statsRun, retryRun, gateway, retryCalls, response>>

\* one turn of the loop: publish batch messages[i:i + batch_size], then sleep unless
\* it was the last batch; slept is the time the run has slept so far
send_bulk_sms_batch(r) ==
    /\ Count(bulkRun, r) > 0
    /\ LET n == Len(r.msgs)
           last == IF r.i + r.batch_size < n THEN r.i + r.batch_size ELSE n
       IN /\ queue' = PutSeq(queue, SendJobs(SubSeq(r.msgs, r.i + 1, last)))
          /\ bulkRun' = IF r.i + r.batch_size < n
                        THEN Put(Take(bulkRun, r),
                                 [r EXCEPT !.i = r.i + r.batch_size,
                                           !.slept = r.slept + SleepTime(r.batch_size)])
                        ELSE Take(bulkRun, r)
    /\ UNCHANGED <<contacts, campaigns, messages, exec, sending, statsRun, retryRun,
                   gateway, retryCalls, response>>

\* except Exception in the dispatch run: the publish of a batch (or the store) raised
send_bulk_sms_error(r) ==
    /\ Count(bulkRun, r) > 0
    /\ bulkRun' = Take(bulkRun, r)
    /\ campaigns' = IF campaigns[r.c].exists
                    THEN [campaigns EXCEPT ![r.c].status = "failed", ![r.c].error_log = TRUE]
                    ELSE campaigns
    /\ UNCHANGED <<contacts, messages, exec, queue, sending, statsRun, retryRun,
                   gateway, retryCalls, response>>

(***************************************************************************)
(* Celery task send_single_sms: the Send Worker.  The first step loads the *)
(* Message and its Contact and commits SENDING (or INVALID_NUMBER); the    *)
(* second step is the gateway call and the commit of its outcome.  The     *)
(* outcome "exc" is an exception raised by the send attempt, handled by    *)
(* the except block.  retry_count is the value the session loaded when the *)
(* attempt began.                                                          *)
(***************************************************************************)
\* if message and message.retry_count < settings.sms_retry_attempts
CanAutoRetry(rc) == rc < sms_retry_attempts

\* a backoff that starts at the base delay
BackoffFromBase(rc) == sms_retry_delay * Pow2(rc - 1)

\* countdown=settings.sms_retry_delay * (2 ** message.retry_count)
BackoffDelay(rc) == sms_retry_delay * Pow2(rc)

\* which results of the attempt publish update_campaign_stats
TriggersStats(outcome) == outcome \in {"ok", "fail"}

\* which results of the attempt hand the job back to Celery for a retry
RaisesRetry(outcome, rc) == outcome = "exc" /\ CanAutoRetry(rc)

\* a lookup that takes every id ever handed out for a row of the store
EverCreated(m) == m \in DOMAIN messages

\* db.query(Message) ... first() and db.query(Contact) ... first() both find a row
RowsFound(m) == m \in MessageIds /\ messages[m].contact \in ContactIds

send_single_sms_start(j) ==
    /\ WorkerFree
    /\ Count(queue, j) > 0
    /\ j.task = "send_single_sms"
    /\ queue' = Take(queue, j)
    /\ LET m == j.arg
       IN IF ~RowsFound(m)
          THEN \* Message not found / Contact not found
               UNCHANGED <<messages, sending>>
          ELSE IF ~contacts[messages[m].contact].is_valid
          THEN /\ messages' = [messages EXCEPT ![m].status = "invalid_number",
                                               ![m].error_message = "validation",
                                               ![m].failed_at = TRUE]
               /\ UNCHANGED sending
          ELSE /\ messages' = [messages EXCEPT ![m].status = "sending",
                                               ![m].queued_at = TRUE]
               /\ sending' = Put(sending, [m |-> m, retry_count |-> messages[m].retry_count])
    /\ UNCHANGED <<contacts, campaigns, exec, bulkRun, statsRun, retryRun, gateway, retryCalls, response>>

send_single_sms_finish(r, outcome) ==
    /\ Count(sending, r) > 0
    /\ sending' = Take(sending, r)
    /\ LET m == r.m
           rc == r.retry_count + 1
           c == messages[m].campaign
       IN IF m \notin MessageIds
          THEN \* the row was deleted under the attempt: the refresh of the expired row
               \* raises before the call ("exc"), or the UPDATE after it finds no row;
               \* the except block cannot write either
               /\ gateway' = IF outcome = "exc" THEN gateway
                             ELSE [gateway EXCEPT ![m].calls = @ + 1,
                                                  ![m].ok = IF outcome = "ok" THEN @ + 1 ELSE @]
               /\ UNCHANGED <<messages, queue>>
          ELSE
          /\ gateway' = [gateway EXCEPT ![m].calls = @ + 1,
                                        ![m].ok = IF outcome = "ok" THEN @ + 1 ELSE @]
          /\ messages' =
                IF outcome = "ok"
                THEN [messages EXCEPT ![m].status = "sent", ![m].sent_at = TRUE,
                                      ![m].api_response = "ok"]
                ELSE IF outcome = "fail"
                THEN [messages EXCEPT ![m].status = "failed", ![m].failed_at = TRUE,
                                      ![m].error_message = "gateway",
                                      ![m].api_response = "fail",
                                      ![m].retry_count = rc]
                ELSE [messages EXCEPT ![m].status = "failed", ![m].failed_at = TRUE,
                                      ![m].error_message = "exception",
                                      ![m].retry_count = rc]
          /\ queue' =
                IF TriggersStats(outcome)
                THEN Put(queue, Job("update_campaign_stats", c, 0))
                ELSE IF RaisesRetry(outcome, rc)
                THEN Put(queue, Job("send_single_sms", m, BackoffDelay(rc)))
                ELSE queue
    /\ UNCHANGED <<contacts, campaigns, exec, bulkRun, statsRun, retryRun, retryCalls,
                   response>>

(***************************************************************************)
(* Celery task update_campaign_stats: the Stats Aggregator.  It reads the  *)
(* campaign and its messages, then commits the counters and, when nothing  *)
(* is pending and the campaign it read was IN_PROGRESS, COMPLETED.         *)
(***************************************************************************)
CountSent(c) == Cardinality(WithStatus(c, {"sent", "delivered"}))
\* a delivered bucket that takes a message the gateway accepted for a delivered one
CountAcceptedAsDelivered(c) == Cardinality(WithStatus(c, {"sent", "delivered"}))
CountDelivered(c) == Cardinality(WithStatus(c, {"delivered"}))
\* a failed bucket that leaves out the messages in FAILED
CountInvalidOnly(c) == Cardinality(WithStatus(c, {"invalid_number"}))
CountFailed(c) == Cardinality(WithStatus(c, {"failed", "invalid_number"}))
\* a pending bucket that also takes the messages being sent
CountPendingOrSending(c) == Cardinality(WithStatus(c, {"pending", "sending"}))
CountPending(c) == Cardinality(WithStatus(c, {"pending"}))

\* if campaign.total_pending == 0: if campaign.status == IN_PROGRESS
Completes(pending, status) == pending = 0 /\ status = "in_progress"

\* an aggregator that fails the campaign as soon as one message has failed
FailedWhenAnyFailed(r, status) ==
    IF r.total_failed > 0 THEN "failed" ELSE IF r.completes THEN "completed" ELSE status

\* the status the pass writes: COMPLETED when it decided so, else the stored one
StatusAfterStats(r, status) == IF r.completes THEN "completed" ELSE status

update_campaign_stats_read(c) ==
    /\ WorkerFree
    /\ Count(queue, Job("update_campaign_stats", c, 0)) > 0
    /\ queue' = Take(queue, Job("update_campaign_stats", c, 0))
    /\ statsRun' =
          IF ~campaigns[c].exists
          THEN statsRun   \* Campaign not found
          ELSE Put(statsRun,
                  [c |-> c, total_sent |-> CountSent(c), total_delivered |-> CountDelivered(c),
                   total_failed |-> CountFailed(c), total_pending |-> CountPending(c),
                   completes |-> Completes(CountPending(c), campaigns[c].status)])
    /\ UNCHANGED <<contacts, campaigns, messages, exec, bulkRun, sending, retryRun,
                   gateway, retryCalls, response>>

\* a pass whose UPDATE is not restricted to the campaign it was called for
update_every_campaign_stats(r) ==
    /\ Count(statsRun, r) > 0
    /\ statsRun' = Take(statsRun, r)
    /\ campaigns' = [c \in CampaignIds |->
                       [campaigns[c] EXCEPT !.total_sent = r.total_sent,
                                            !.total_delivered = r.total_delivered,
                                            !.total_failed = r.total_failed,
                                            !.total_pending = r.total_pending]]
    /\ UNCHANGED <<contacts, messages, exec, queue, bulkRun, sending, retryRun,
                   gateway, retryCalls, response>>

update_campaign_stats_commit(r) ==
    /\ Count(statsRun, r) > 0
    /\ statsRun' = Take(statsRun, r)
    /\ campaigns' =
          IF ~campaigns[r.c].exists
          THEN campaigns   \* the UPDATE finds no row: the except block returns the error
          ELSE [campaigns EXCEPT
                  ![r.c].total_sent = r.total_sent,
                  ![r.c].total_delivered = r.total_delivered,
                  ![r.c].total_failed = r.total_failed,
                  ![r.c].total_pending = r.total_pending,
                  ![r.c].status = StatusAfterStats(r, @),
                  ![r.c].completed_at = IF r.completes THEN TRUE ELSE @]
    /\ UNCHANGED <<contacts, messages, exec, queue, bulkRun, sending, retryRun,
                   gateway, retryCalls, response>>

(***************************************************************************)
(* Celery task retry_failed_messages.  The loop marks each selected        *)
(* message PENDING in the session and publishes its send job; the marks    *)
(* reach the store at the commit that follows the loop.                    *)
(***************************************************************************)
\* a selection without the filter on retry_count
FailedMessages(c) == WithStatus(c, {"failed"})

\* Message.status == FAILED, Message.retry_count < settings.sms_retry_attempts
RetrySelected(c) ==
    {m \in MessagesOf(c) : /\ messages[m].status = "failed"
                           /\ messages[m].retry_count < sms_retry_attempts}

retry_failed_messages_start(c) ==
    /\ WorkerFree
    /\ Count(queue, Job("retry_failed_messages", c, 0)) > 0
    /\ LET msgs == RetrySelected(c)
       IN /\ queue' = PutSeq(Take(queue, Job("retry_failed_messages", c, 0)),
                             SendJobs(SortedSeq(msgs)))
          /\ retryRun' = IF msgs = {} THEN retryRun
                         ELSE Put(retryRun, [c |-> c, msgs |-> msgs])
    /\ UNCHANGED <<contacts, campaigns, messages, exec, bulkRun, sending, statsRun,
                   gateway, retryCalls, response>>

retry_failed_messages_commit(r) ==
    /\ Count(retryRun, r) > 0
    /\ retryRun' = Take(retryRun, r)
    /\ messages' = [m \in DOMAIN messages |->
                      IF m \in r.msgs /\ m \in MessageIds
                      THEN [messages[m] EXCEPT !.status = "pending",
                                               !.error_message = "none"]
                      ELSE messages[m]]
    /\ UNCHANGED <<contacts, campaigns, exec, queue, bulkRun, sending, statsRun,
                   gateway, retryCalls, response>>

(***************************************************************************)
(* Deleting campaigns.  The endpoint delete_campaign refuses a campaign    *)
(* that is PROCESSING or IN_PROGRESS and otherwise deletes the row, and    *)
(* the cascade deletes its contacts and messages.  The task                *)
(* cleanup_old_campaigns deletes COMPLETED campaigns whose completed_at is *)
(* older than the cutoff (which of them are is left open here); the        *)
(* foreign keys of Contact and Message are declared ON DELETE CASCADE.     *)
(***************************************************************************)
\* CampaignService.delete_campaign: the campaign is loaded, found not active and
\* marked for deletion in the session
delete_campaign_check(e, c) ==
    /\ exec[e].pc = "idle"
    /\ \A f \in ExecIds : f < e => exec[f].pc # "idle"
    /\ campaigns[c].exists
    /\ ~is_active(c)
    /\ exec' = [exec EXCEPT ![e] = [IdleExec EXCEPT !.pc = "deleting", !.c = c]]
    /\ UNCHANGED <<contacts, campaigns, messages, queue, bulkRun, sending,
                   statsRun, retryRun, gateway, retryCalls, response>>

\* the endpoint's commit: the DELETE reaches the store, whatever the row is by now
delete_campaign_commit(e) ==
    /\ exec[e].pc = "deleting"
    /\ LET c == exec[e].c
       IN IF campaigns[c].exists
          THEN /\ campaigns' = [campaigns EXCEPT ![c] = DeletedCampaign]
               /\ response' = Response("delete", c, "deleted")
          ELSE \* the row is gone already: the DELETE matches no row, HTTP 500
               /\ response' = Response("delete", c, "Failed to delete campaign")
               /\ UNCHANGED campaigns
    /\ exec' = [exec EXCEPT ![e] = IdleExec]
    /\ UNCHANGED <<contacts, messages, queue, bulkRun, sending, statsRun, retryRun,
                   gateway, retryCalls>>

delete_campaign_rejected(c) ==
    /\ campaigns[c].exists
    /\ is_active(c)
    /\ response' = Response("delete", c, "Cannot delete an active campaign")
    /\ UNCHANGED <<contacts, campaigns, messages, exec, queue, bulkRun, sending, statsRun,
                   retryRun, gateway, retryCalls>>

(***************************************************************************)
(* Updating a campaign.  The endpoint update_campaign refuses a campaign   *)
(* that is PROCESSING or IN_PROGRESS; otherwise it sets the fields the     *)
(* request carries, of which the model keeps the status.                   *)
(***************************************************************************)
update_campaign_rejected(c) ==
    /\ campaigns[c].exists
    /\ is_active(c)
    /\ response' = Response("update", c, "Cannot update an active campaign")
    /\ UNCHANGED <<contacts, campaigns, messages, exec, queue, bulkRun, sending, statsRun,
                   retryRun, gateway, retryCalls>>

\* CampaignService.update_campaign up to its check of is_active; v is the status of
\* the request
update_campaign_check(e, c, v) ==
    /\ exec[e].pc = "idle"
    /\ \A f \in ExecIds : f < e => exec[f].pc # "idle"
    /\ campaigns[c].exists
    /\ ~is_active(c)
    /\ exec' = [exec EXCEPT ![e] = [IdleExec EXCEPT !.pc = "updating", !.c = c, !.data = v]]
    /\ UNCHANGED <<contacts, campaigns, messages, queue, bulkRun, sending,
                   statsRun, retryRun, gateway, retryCalls, response>>

\* setattr, flush and the endpoint's commit: the UPDATE writes the fields of the request
update_campaign_commit(e) ==
    /\ exec[e].pc = "updating"
    /\ LET c == exec[e].c
       IN IF campaigns[c].exists
          THEN /\ campaigns' = [campaigns EXCEPT ![c].status = exec[e].data]
               /\ response' = Response("update", c, "updated")
          ELSE \* the UPDATE matches no row, HTTP 500
               /\ response' = Response("update", c, "Failed to update campaign")
               /\ UNCHANGED campaigns
    /\ exec' = [exec EXCEPT ![e] = IdleExec]
    /\ UNCHANGED <<contacts, messages, queue, bulkRun, sending, statsRun, retryRun,
                   gateway, retryCalls>>

\* the campaigns the cleanup may find: COMPLETED, with completed_at set
OldCampaigns ==
    {c \in CampaignIds : /\ campaigns[c].exists
                         /\ campaigns[c].status = "completed"
                         /\ campaigns[c].completed_at}

cleanup_old_campaigns(old) ==
    /\ old # {}
    /\ old \subseteq OldCampaigns
    /\ campaigns' = [c \in CampaignIds |-> IF c \in old THEN DeletedCampaign ELSE campaigns[c]]
    /\ UNCHANGED <<contacts, messages, exec, queue, bulkRun, sending, statsRun, retryRun,
                   gateway, retryCalls, response>>

(***************************************************************************)
(* The system: API callers and workers interleave freely.                  *)
(***************************************************************************)
Outcomes == {"ok", "fail", "exc"}

AddContacts == \E c \in Dispatched, n \in 1..MaxContacts, valid \in 0..MaxContacts :
                  /\ valid <= n
                  /\ Len(contacts) + n <= MaxContacts
                  /\ create_contacts_bulk(c, n, valid)
ExecuteRejectedStep == \E c \in Dispatched : execute_campaign_rejected(c)
ExecuteCheck == \E e \in ExecIds, c \in Dispatched : execute_campaign_check(e, c)
ExecuteQuery == \E e \in ExecIds : execute_campaign_query(e)
ExecuteCommit == \E e \in ExecIds : execute_campaign_commit(e)
RetryFailed == \E c \in Dispatched : retry_failed(c)
BulkStart == \E c \in CampaignIds : send_bulk_sms_start(c, 0)
BulkBatch == \E r \in BagToSet(bulkRun) : send_bulk_sms_batch(r)
SendStart == \E j \in BagToSet(queue) : send_single_sms_start(j)
SendFinish == \E r \in BagToSet(sending), o \in Outcomes : send_single_sms_finish(r, o)
StatsRead == \E c \in CampaignIds : update_campaign_stats_read(c)
StatsCommit == \E r \in BagToSet(statsRun) : update_campaign_stats_commit(r)
RetryStart == \E c \in CampaignIds : retry_failed_messages_start(c)
RetryCommit == \E r \in BagToSet(retryRun) : retry_failed_messages_commit(r)

Next ==
    \/ AddContacts
    \/ ExecuteRejectedStep
    \/ ExecuteCheck
    \/ ExecuteQuery
    \/ ExecuteCommit
    \/ RetryFailed
    \/ BulkStart
    \/ BulkBatch
    \/ SendStart
    \/ SendFinish
    \/ StatsRead
    \/ StatsCommit
    \/ RetryStart
    \/ RetryCommit

Spec == Init /\ [][Next]_vars

(***************************************************************************)
(* The dispatch path alone, with more contacts: the gateway accepts every  *)
(* message and no operator retry is requested.                             *)
(***************************************************************************)
AddContactsRace == \E c \in CampaignIds, n \in 1..RaceContacts, valid \in 0..RaceContacts :
                      /\ valid <= n
                      /\ Len(contacts) + n <= RaceContacts
                      /\ create_contacts_bulk(c, n, valid)
SendDelivered == \E r \in BagToSet(sending) : send_single_sms_finish(r, "ok")

NextRace ==
    \/ AddContactsRace
    \/ ExecuteRejectedStep
    \/ ExecuteCheck
    \/ ExecuteQuery
    \/ ExecuteCommit
    \/ BulkStart
    \/ BulkBatch
    \/ SendStart
    \/ SendDelivered
    \/ StatsRead
    \/ StatsCommit

SpecRace == Init /\ [][NextRace]_vars

(***************************************************************************)
(* The Dispatch Orchestrator alone: Execute calls one after the other on   *)
(* any campaign, dispatch runs with a small batch_size argument, and no    *)
(* send worker consuming the jobs.                                         *)
(***************************************************************************)
AddContactsDispatch ==
    \E c \in CampaignIds, n \in 1..DispatchContacts, valid \in 0..DispatchContacts :
        /\ valid <= n
        /\ Len(contacts) + n <= DispatchContacts
        /\ create_contacts_bulk(c, n, valid)
ExecuteCheckAlone == \E c \in CampaignIds :
                        /\ \A e \in ExecIds : exec[e].pc = "idle"
                        /\ execute_campaign_check(1, c)
BulkStartSized == \E c \in CampaignIds, b \in 0..MaxBatch : send_bulk_sms_start(c, b)

NextDispatch ==
    \/ AddContactsDispatch
    \/ ExecuteRejectedStep
    \/ ExecuteCheckAlone
    \/ ExecuteQuery
    \/ ExecuteCommit
    \/ BulkStartSized
    \/ BulkBatch

SpecDispatch == Init /\ [][NextDispatch]_vars

(***************************************************************************)
(* The system with an unreliable broker: publishing a job may raise, in    *)
(* execute_campaign and inside the dispatch run.  Execute calls come one   *)
(* after the other, dispatch runs take a small batch_size argument, send   *)
(* attempts may fail, and no operator retry is requested.                  *)
(***************************************************************************)
AddContactsFault == \E c \in Dispatched, n \in 1..FaultContacts, valid \in 0..FaultContacts :
                       /\ valid <= n
                       /\ Len(contacts) + n <= FaultContacts
                       /\ create_contacts_bulk(c, n, valid)
ExecuteEnqueueFails == \E e \in ExecIds : execute_campaign_enqueue_fails(e)
BulkError == \E r \in BagToSet(bulkRun) : send_bulk_sms_error(r)

NextFault ==
    \/ AddContactsFault
    \/ ExecuteRejectedStep
    \/ ExecuteCheckAlone
    \/ ExecuteQuery
    \/ ExecuteCommit
    \/ ExecuteEnqueueFails
    \/ BulkStartSized
    \/ BulkBatch
    \/ BulkError
    \/ SendStart
    \/ SendFinish
    \/ StatsRead
    \/ StatsCommit

SpecFault == Init /\ [][NextFault]_vars

(***************************************************************************)
(* The system with its administration: campaigns may also be deleted, by   *)
(* the API or by the cleanup task, while jobs are outstanding.             *)
(***************************************************************************)
DeleteCheck == \E e \in ExecIds, c \in CampaignIds : delete_campaign_check(e, c)
DeleteCommit == \E e \in ExecIds : delete_campaign_commit(e)
DeleteRejected == \E c \in CampaignIds : delete_campaign_rejected(c)
UpdateCheck == \E e \in ExecIds, c \in CampaignIds, v \in CampaignStatus :
                  update_campaign_check(e, c, v)
UpdateCommit == \E e \in ExecIds : update_campaign_commit(e)
UpdateRejected == \E c \in CampaignIds : update_campaign_rejected(c)
Cleanup == \E old \in SUBSET CampaignIds : cleanup_old_campaigns(old)

NextAdmin ==
    \/ Next
    \/ DeleteCheck
    \/ DeleteCommit
    \/ DeleteRejected
    \/ Cleanup

SpecAdmin == Init /\ [][NextAdmin]_vars

(***************************************************************************)
(* The campaign endpoints next to the dispatch path: campaigns are         *)
(* executed, updated and deleted by concurrent requests while dispatch     *)
(* runs publish the send jobs; no send worker consumes them.               *)
(***************************************************************************)
NextCrud ==
    \/ AddContacts
    \/ ExecuteRejectedStep
    \/ ExecuteCheck
    \/ ExecuteQuery
    \/ ExecuteCommit
    \/ BulkStart
    \/ BulkBatch
    \/ DeleteCheck
    \/ DeleteCommit
    \/ DeleteRejected
    \/ UpdateCheck
    \/ UpdateCommit
    \/ UpdateRejected

SpecCrud == Init /\ [][NextCrud]_vars

(***************************************************************************)
(* Fair scheduling: the workers keep consuming, so a task that can take    *)
(* its next step eventually takes it.  Nothing is assumed of the callers   *)
(* of the API.                                                             *)
(***************************************************************************)
WorkersRun ==
    /\ WF_vars(BulkStart)
    /\ WF_vars(BulkBatch)
    /\ WF_vars(SendStart)
    /\ WF_vars(SendFinish)
    /\ WF_vars(StatsRead)
    /\ WF_vars(StatsCommit)
    /\ WF_vars(RetryStart)
    /\ WF_vars(RetryCommit)

SpecLive == Spec /\ WorkersRun

(***************************************************************************)
(* Properties.                                                             *)
(***************************************************************************)
Active == {"processing", "in_progress"}

\* send_single_sms jobs published for message m and not yet consumed
QueuedSends(m) ==
    BagCardinality([j \in {x \in BagToSet(queue) : x.task = "send_single_sms" /\ x.arg = m}
                      |-> queue[j]])
\* send_single_sms runs for message m waiting for the gateway
RunningSends(m) ==
    BagCardinality([r \in {x \in BagToSet(sending) : x.m = m} |-> sending[r]])
OutstandingSends(m) == QueuedSends(m) + RunningSends(m)

\* job j was published by the step
Published(j) == Count(queue', j) > Count(queue, j)

Quiescent ==
    /\ queue = EmptyBag
    /\ Busy = 0
    /\ \A e \in ExecIds : exec[e].pc = "idle"

CounterSum(r) == r.total_sent + r.total_failed + r.total_pending

\* C1 as stated: in every reachable state the stored counters of every campaign
\* satisfy total_sent + total_failed + total_pending = number of its Message rows.
C1_CountersAlwaysBalance ==
    \A c \in CampaignIds : CounterSum(campaigns[c]) = Cardinality(MessagesOf(c))

\* C1 (amended): the counters a Recompute pass computes from the messages it reads
\* satisfy total_sent + total_failed + total_pending = number of the campaign's
\* Message rows minus those that are SENDING (or QUEUED) at that read.
C1_RecomputeBalances ==
    [][\A r \in BagToSet(statsRun') :
          Count(statsRun', r) > Count(statsRun, r)
          => CounterSum(r) = Cardinality(MessagesOf(r.c))
                             - Cardinality(WithStatus(r.c, {"sending", "queued"}))]_vars

\* C1 witness: a Recompute pass has read a campaign while one of its messages was
\* SENDING, so its counters sum to less than the number of Message rows.
C1_PassReadWhileSending ==
    \E r \in BagToSet(statsRun) :
        /\ WithStatus(r.c, {"sending"}) # {}
        /\ CounterSum(r) < Cardinality(MessagesOf(r.c))

\* C2: in every reachable state every Contact owns at most one Message.
C2_OneMessagePerContact ==
    \A k \in ContactIds : Cardinality({m \in MessageIds : messages[m].contact = k}) <= 1

\* C2 witness: of two Execute calls racing on one campaign, the second one's insert
\* was refused by the unique index after the first had created the messages.
C2_RacingInsertRefused ==
    /\ response = Response("execute", 1, "Failed to execute campaign")
    /\ messages # <<>>

\* C3 as stated: a message that is SENT or INVALID_NUMBER is never moved to SENDING.
C3_NoSendingAfterSuccess ==
    [][\A m \in MessageIds :
          messages[m].status \in {"sent", "invalid_number"}
          => messages'[m].status # "sending"]_vars

\* C4 as stated: no message ever has two send jobs published by dispatch runs (under
\* SpecRace dispatch runs are the only publishers of send jobs).
C4_OneSendJobPerMessage ==
    \A m \in MessageIds : QueuedSends(m) <= 1

\* C5 as stated: when an attempt ends with a gateway failure result and the
\* incremented retryCount is below maxAttempts, that step publishes a delayed send
\* job for the same message.
C5_FailureResultSchedulesRetry ==
    [][\A m \in MessageIds :
          (/\ messages[m].status = "sending"
           /\ messages'[m].status = "failed"
           /\ messages'[m].error_message = "gateway"
           /\ messages'[m].retry_count < sms_retry_attempts)
          => \E j \in BagToSet(queue') :
                /\ j.task = "send_single_sms" /\ j.arg = m /\ j.countdown > 0
                /\ Published(j)]_vars

\* C6 as stated: with no operator retry, a message all of whose gateway calls failed
\* and for which no send job is left is FAILED with retryCount = maxAttempts after
\* exactly maxAttempts gateway calls.
C6_FailuresExhaustRetries ==
    \A m \in MessageIds :
        (/\ messages[m].status = "failed"
         /\ gateway[m].ok = 0
         /\ OutstandingSends(m) = 0
         /\ retryCalls = 0)
        => (/\ messages[m].retry_count = sms_retry_attempts
            /\ gateway[m].calls = sms_retry_attempts)

\* C7 as stated: a FAILED message whose retryCount has reached maxAttempts never
\* changes status again.
C7_CappedFailedIsFinal ==
    [][\A m \in MessageIds :
          (messages[m].status = "failed" /\ messages[m].retry_count >= sms_retry_attempts)
          => messages'[m].status = "failed"]_vars

\* C8 as stated: the automatic retry published after a failed attempt has delay
\* baseDelay * 2^k, k the number of failures recorded before that attempt (5, 10, 20).
C8_DelayFromRetriesMade ==
    [][\A j \in BagToSet(queue') :
          (j.task = "send_single_sms" /\ j.countdown > 0 /\ Published(j))
          => j.countdown = sms_retry_delay * Pow2(messages[j.arg].retry_count)]_vars

\* C8 (amended): the automatic retry published after a failed attempt has delay
\* baseDelay * 2^retryCount, retryCount being the count after that attempt's
\* increment: with baseDelay = 5 the delays are 10 and 20 seconds.
C8_DelayFromIncrementedCount ==
    [][\A j \in BagToSet(queue') :
          (j.task = "send_single_sms" /\ j.countdown > 0 /\ Published(j))
          => /\ j.countdown = sms_retry_delay * Pow2(messages'[j.arg].retry_count)
             /\ j.countdown \in {10, 20}]_vars

\* C8 witness: the retry after a second failed attempt is queued with its delay.
C8_SecondRetryQueued ==
    \E m \in MessageIds :
        /\ messages[m].status = "failed" /\ messages[m].retry_count = 2
        /\ Count(queue, Job("send_single_sms", m, 20)) > 0

Terminal(m) ==
    \/ messages[m].status \in {"sent", "invalid_number"}
    \/ messages[m].status = "failed" /\ messages[m].retry_count >= sms_retry_attempts

\* C9 as stated: once every message of a dispatched campaign is SENT, INVALID_NUMBER
\* or FAILED at the retry cap and no job is left to run, the campaign is COMPLETED
\* with total_pending = 0 and completed_at set.
C9_SettledCampaignCompleted ==
    \A c \in CampaignIds :
        (/\ campaigns[c].started_at
         /\ MessagesOf(c) # {}
         /\ \A m \in MessagesOf(c) : Terminal(m)
         /\ Quiescent)
        => (/\ campaigns[c].status = "completed"
            /\ campaigns[c].total_pending = 0
            /\ campaigns[c].completed_at)

\* C10: an Execute call on a PROCESSING or IN_PROGRESS campaign never passes the
\* status check, and the step that answers 'already running' changes nothing but
\* the answer: no Message, no campaign field, no job.
C10_ActiveExecuteRejected ==
    [][/\ \A e \in ExecIds :
             (exec[e].pc = "idle" /\ exec'[e].pc # "idle")
             => campaigns[exec'[e].c].status \notin Active
       /\ (response' # response /\ response'.detail = "Campaign is already running")
             => /\ campaigns[response'.c].status \in Active
                /\ UNCHANGED <<contacts, campaigns, messages, exec, queue, bulkRun,
                               sending, statsRun, retryRun, gateway, retryCalls>>]_vars

\* C10 witness: an Execute call on a running campaign was answered 'already running'.
C10_RejectedWhileRunning ==
    /\ response = Response("execute", 1, "Campaign is already running")
    /\ campaigns[1].status \in Active
    /\ messages # <<>>

C12_OneMessagePerEligibleContact ==
    [][\A e \in ExecIds :
          /\ (exec[e].pc = "checked" /\ exec'[e].pc = "queried")
             => exec'[e].found =
                   {k \in ContactIds :
                       /\ contacts[k].campaign = exec[e].c
                       /\ contacts[k].is_valid
                       /\ \A m \in MessageIds : messages[m].contact # k}
          /\ (/\ exec[e].pc = "queried" /\ exec'[e].pc = "idle"
              /\ response' = Response("execute", exec[e].c, "queued"))
             => LET new == (DOMAIN messages') \ MessageIds
                IN /\ Cardinality(new) = Cardinality(exec[e].found)
                   /\ \A k \in exec[e].found :
                         Cardinality({m \in new : messages'[m].contact = k}) = 1
                   /\ \A m \in new :
                         /\ messages'[m].contact \in exec[e].found
                         /\ messages'[m].campaign = exec[e].c
                         /\ contacts[messages'[m].contact].campaign = exec[e].c
                         /\ contacts[messages'[m].contact].is_valid
                         /\ messages'[m].status = "pending"
                         /\ messages'[m].retry_count = 0
                   /\ \A m \in MessageIds : messages'[m] = messages[m]
                   /\ campaigns'[exec[e].c].status = "processing"]_vars

\* C12 witness: campaign 1 has three contacts, one of them invalid, and Execute has
\* created exactly two PENDING messages for it and set it PROCESSING.
C12_ThreeContactsTwoMessages ==
    /\ Cardinality({k \in ContactIds : contacts[k].campaign = 1}) = 3
    /\ Cardinality({k \in ContactIds : contacts[k].campaign = 1 /\ ~contacts[k].is_valid}) = 1
    /\ Cardinality(MessagesOf(1)) = 2
    /\ \A m \in MessagesOf(1) : messages[m].status = "pending" /\ messages[m].retry_count = 0
    /\ campaigns[1].status = "processing"
    /\ response = Response("execute", 1, "queued")

\* C13 as stated: a dispatch run never publishes a send job for a message that already
\* has a send job queued or running, whichever Execute call created the message.
C13_NoSecondJobForDispatched ==
    [][\A r \in BagToSet(bulkRun) :
          Count(bulkRun', r) < Count(bulkRun, r)
          => \A m \in MessageIds :
                Published(Job("send_single_sms", m, 0)) => OutstandingSends(m) = 0]_vars

\* C14: a dispatch run over N pending messages with batch size B publishes, turn by
\* turn, one send job for each of the next B messages of its list (fewer only in the
\* last turn) and for no other message, sleeps (B / rateLimitPerMinute) * 60 seconds
\* after every turn but the last, and ends after the turn that reaches the end of the
\* list: N = 5, B = 2, rate 60 gives batches [2, 2, 1] and two pauses of 2 seconds.
C14_BatchesAndPauses ==
    [][\A r \in BagToSet(bulkRun) :
          Count(bulkRun', r) < Count(bulkRun, r)
          => LET n == Len(r.msgs)
                 B == r.batch_size
                 pause == (B * 60 * 1000) \div sms_rate_limit
                 k == IF n - r.i < B THEN n - r.i ELSE B
             IN /\ r.i < n /\ r.i % B = 0
                /\ r.slept = (r.i \div B) * pause
                /\ \A p \in 1..n :
                      Count(queue', Job("send_single_sms", r.msgs[p], 0))
                         = Count(queue, Job("send_single_sms", r.msgs[p], 0))
                           + (IF p \in (r.i + 1)..(r.i + k) THEN 1 ELSE 0)
                /\ BagCardinality(queue') = BagCardinality(queue) + k
                /\ IF r.i + k < n
                   THEN /\ k = B
                        /\ Count(bulkRun', [r EXCEPT !.i = r.i + B, !.slept = r.slept + pause])
                              > Count(bulkRun, [r EXCEPT !.i = r.i + B, !.slept = r.slept + pause])
                   ELSE /\ BagCardinality(bulkRun') = BagCardinality(bulkRun) - 1
                        /\ r.slept = ((n - 1) \div B) * pause]_vars

\* C14 witness: a run over 5 messages with batch size 2 has published two batches of
\* 2 send jobs, has slept twice 2 seconds and is about to publish the last message.
C14_FiveByTwo ==
    \E r \in BagToSet(bulkRun) :
        /\ Len(r.msgs) = 5 /\ r.batch_size = 2 /\ r.i = 4 /\ r.slept = 4000
        /\ \A p \in 1..4 : QueuedSends(r.msgs[p]) = 1
        /\ QueuedSends(r.msgs[5]) = 0

\* C15: a retry_failed_messages run selects exactly the messages of its campaign that
\* are FAILED with retryCount < maxAttempts and publishes exactly one send job for
\* each of them and no other job; its commit sets every selected message PENDING
\* with the error text cleared, leaves the retryCount it finds and writes no other
\* message.
C15_RetryResetsSelected ==
    [][/\ \A c \in CampaignIds :
             Count(queue', Job("retry_failed_messages", c, 0))
                < Count(queue, Job("retry_failed_messages", c, 0))
             => LET sel == {m \in MessageIds :
                              /\ messages[m].campaign = c
                              /\ messages[m].status = "failed"
                              /\ messages[m].retry_count < sms_retry_attempts}
                IN /\ \A m \in MessageIds :
                         Count(queue', Job("send_single_sms", m, 0))
                            = Count(queue, Job("send_single_sms", m, 0))
                              + (IF m \in sel THEN 1 ELSE 0)
                   /\ BagCardinality(queue') = BagCardinality(queue) - 1 + Cardinality(sel)
                   /\ sel # {} => Count(retryRun', [c |-> c, msgs |-> sel])
                                     > Count(retryRun, [c |-> c, msgs |-> sel])
                   /\ sel = {} => retryRun' = retryRun
       /\ \A r \in BagToSet(retryRun) :
             Count(retryRun', r) < Count(retryRun, r)
             => /\ \A m \in r.msgs :
                      /\ messages'[m].status = "pending"
                      /\ messages'[m].error_message = "none"
                      /\ messages'[m].retry_count = messages[m].retry_count
                /\ \A m \in MessageIds \ r.msgs : messages'[m] = messages[m]]_vars

\* C15 witness: RetryFailed has reset a message that had failed once: it is PENDING
\* with retryCount 1 and no error text, and its send job is queued.
C15_FailedOnceResetAndQueued ==
    \E m \in MessageIds :
        /\ messages[m].status = "pending"
        /\ messages[m].retry_count = 1
        /\ messages[m].error_message = "none"
        /\ QueuedSends(m) = 1
        /\ retryRun = EmptyBag

\* C16 as stated: the write of a RetryFailed run changes no message that is not FAILED,
\* is at the retry cap or belongs to another campaign, and no campaign; a run for
\* which no message qualifies changes nothing and publishes nothing.
C16_RetryLeavesOthersUnchanged ==
    [][/\ \A r \in BagToSet(retryRun) :
             Count(retryRun', r) < Count(retryRun, r)
             => /\ \A m \in MessageIds :
                      (\/ messages[m].status # "failed"
                       \/ messages[m].retry_count >= sms_retry_attempts
                       \/ messages[m].campaign # r.c)
                      => messages'[m] = messages[m]
                /\ campaigns' = campaigns
       /\ \A c \in CampaignIds :
             (/\ Count(queue', Job("retry_failed_messages", c, 0))
                    < Count(queue, Job("retry_failed_messages", c, 0))
              /\ ~\E m \in MessageIds :
                     /\ messages[m].campaign = c
                     /\ messages[m].status = "failed"
                     /\ messages[m].retry_count < sms_retry_attempts)
             => /\ queue' = Take(queue, Job("retry_failed_messages", c, 0))
                /\ UNCHANGED <<contacts, campaigns, messages, retryRun>>]_vars

\* C17 as stated: the write of a Recompute pass sets the campaign COMPLETED with
\* completed_at exactly when the total_pending it recomputed is zero and the campaign
\* is IN_PROGRESS; a campaign in any other status keeps its status and completed_at.
C17_CompletesOnlyInProgress ==
    [][\A r \in BagToSet(statsRun) :
          Count(statsRun', r) < Count(statsRun, r)
          => IF r.total_pending = 0 /\ campaigns[r.c].status = "in_progress"
             THEN /\ campaigns'[r.c].status = "completed"
                  /\ campaigns'[r.c].completed_at
             ELSE /\ campaigns'[r.c].status = campaigns[r.c].status
                  /\ campaigns'[r.c].completed_at = campaigns[r.c].completed_at]_vars

\* C18 as stated: an Execute call that ends in a failure of the orchestration (answer
\* 'Failed to execute campaign') leaves the campaign FAILED with an error record, never
\* PROCESSING or IN_PROGRESS.
C18_OrchestrationFailureMarksFailed ==
    [][\A e \in ExecIds :
          (/\ exec[e].pc = "queried" /\ exec'[e].pc = "idle"
           /\ response' = Response("execute", exec[e].c, "Failed to execute campaign"))
          => /\ campaigns'[exec[e].c].status = "failed"
             /\ campaigns'[exec[e].c].error_log]_vars

\* C20: no step of a send job changes a campaign or a dispatch run, and every step
\* that sets a campaign FAILED is the error path of a dispatch run of that campaign,
\* which ends the run, records the error and changes no message.
C20_OnlyDispatchErrorFailsCampaign ==
    [][/\ (\/ sending' # sending
           \/ \E m \in MessageIds : /\ messages'[m].status = "invalid_number"
                                    /\ messages[m].status # "invalid_number")
             => (campaigns' = campaigns /\ bulkRun' = bulkRun)
       /\ \A c \in CampaignIds :
             (campaigns'[c].status = "failed" /\ campaigns[c].status # "failed")
             => /\ \E r \in BagToSet(bulkRun) :
                      r.c = c /\ Count(bulkRun', r) < Count(bulkRun, r)
                /\ campaigns'[c].error_log
                /\ UNCHANGED <<messages, sending, queue, gateway>>]_vars

\* C20 witness: a message of the first batch has FAILED while the dispatch run of its
\* campaign is still between two batches; the campaign stays IN_PROGRESS with no
\* error record.
C20_RunSurvivesMessageFailure ==
    \E r \in BagToSet(bulkRun), m \in MessageIds :
        /\ messages[m].campaign = r.c
        /\ messages[m].status = "failed"
        /\ r.i > 0
        /\ campaigns[r.c].status = "in_progress"
        /\ ~campaigns[r.c].error_log

\* C19 as stated: under fair scheduling no message that a send job has picked up
\* stays PENDING or SENDING forever.
C19_NoMessageStuck ==
    \A m \in 1..MaxContacts :
        []<>(~(/\ m \in MessageIds
               /\ messages[m].queued_at
               /\ messages[m].status \in {"pending", "sending"}))

\* the send run r of the step's send job ended in this step (its gateway call was made)
AttemptEnded(r) == Count(sending', r) < Count(sending, r)

\* C21 as stated: every step in which a send job writes SENT, FAILED or INVALID_NUMBER
\* to a message publishes an update_campaign_stats job for the owning campaign.
C21_TerminalWriteTriggersStats ==
    [][/\ \A r \in BagToSet(sending) :
             AttemptEnded(r)
             => Published(Job("update_campaign_stats", messages[r.m].campaign, 0))
       /\ \A m \in MessageIds :
             (messages'[m].status = "invalid_number" /\ messages[m].status # "invalid_number")
             => Published(Job("update_campaign_stats", messages[m].campaign, 0))]_vars

\* C22 as stated: every attempt that ends with the message FAILED, by a failure result
\* or by an exception, has one and the same effect: retryCount is one more than the
\* attempt found it, a delayed send job is published exactly when the new retryCount
\* is below maxAttempts, and an update_campaign_stats job is published.
C22_ExceptionLikeFailureResult ==
    [][\A r \in BagToSet(sending) :
          (AttemptEnded(r) /\ gateway'[r.m].ok = gateway[r.m].ok)
          => /\ messages'[r.m].status = "failed"
             /\ messages'[r.m].retry_count = r.retry_count + 1
             /\ (\E j \in BagToSet(queue') :
                    /\ j.task = "send_single_sms" /\ j.arg = r.m /\ j.countdown > 0
                    /\ Published(j))
                <=> messages'[r.m].retry_count < sms_retry_attempts
             /\ Published(Job("update_campaign_stats", messages[r.m].campaign, 0))]_vars

\* the status changes of a message that the life cycle allows
AllowedStatusChanges ==
    {<<"pending", "sending">>, <<"sending", "sent">>, <<"sending", "failed">>,
     <<"pending", "invalid_number">>, <<"failed", "pending">>}

\* C23 as stated: every change of a message's status is PENDING -> SENDING,
\* SENDING -> SENT, SENDING -> FAILED, PENDING -> INVALID_NUMBER or FAILED -> PENDING;
\* in particular a message becomes SENDING only from PENDING.
C23_StatusFollowsLifeCycle ==
    [][\A m \in MessageIds :
          messages'[m].status # messages[m].status
          => <<messages[m].status, messages'[m].status>> \in AllowedStatusChanges]_vars

\* C25: a step that consumes a send job whose Message row or Contact row does not
\* exist only removes that job from the queue: no message, contact or campaign is
\* written, no gateway call is made, no attempt is started and no job is published.
C25_MissingRowJobChangesNothing ==
    [][\A j \in BagToSet(queue) :
          (/\ j.task = "send_single_sms"
           /\ Count(queue', j) < Count(queue, j)
           /\ (j.arg \notin MessageIds \/ messages[j.arg].contact \notin ContactIds))
          => /\ queue' = Take(queue, j)
             /\ UNCHANGED <<contacts, campaigns, messages, exec, bulkRun, sending,
                            statsRun, retryRun, gateway, retryCalls, response>>]_vars

\* C25 witness: the campaign of a message was deleted while the retry job of its last
\* attempt (an exception, retry_count below the cap) was outstanding; that job has
\* been consumed and the row it was for is as the last attempt left it.
C25_RetryJobOfDeletedMessageGone ==
    \E m \in DOMAIN messages :
        /\ ~campaigns[messages[m].campaign].exists
        /\ messages[m].status = "failed"
        /\ messages[m].error_message = "exception"
        /\ messages[m].retry_count < sms_retry_attempts
        /\ OutstandingSends(m) = 0

\* C30 as stated: a Message row, once created, exists in every later state.
C30_MessagesNeverDeleted ==
    [][MessageIds \subseteq MessageIds']_vars

\* C26 as stated: while a send job is between its commit of SENDING and the end of its
\* gateway call, the stored message has queued_at set and is SENDING or later, never
\* PENDING (the state a crash at that point would leave behind).
C26_SendingCommittedBeforeCall ==
    \A r \in BagToSet(sending) :
        /\ messages[r.m].queued_at
        /\ messages[r.m].status # "pending"

\* C27 as stated: a step that ends a send attempt leaves the message either SENT with
\* sent_at, the stored retry_count unchanged and the gateway result stored (the gateway
\* accepted), or FAILED with failed_at, the stored retry_count one higher and, when
\* the gateway answered, its result stored.
C27_AttemptEndsSentOrFailed ==
    [][\A r \in BagToSet(sending) :
          AttemptEnded(r)
          => LET old == messages[r.m]
                 new == messages'[r.m]
             IN IF gateway'[r.m].ok > gateway[r.m].ok
                THEN /\ new.status = "sent"
                     /\ new.sent_at
                     /\ new.retry_count = old.retry_count
                     /\ new.api_response = "ok"
                ELSE /\ new.status = "failed"
                     /\ new.failed_at
                     /\ new.retry_count = old.retry_count + 1
                     /\ new.error_message = "gateway" => new.api_response = "fail"]_vars

\* the number of messages of campaign c whose stored status is in S
Tally(c, S) == Cardinality({m \in MessageIds : /\ messages[m].campaign = c
                                               /\ messages[m].status \in S})

C29_RecomputeOnlyWritesItsCampaign ==
    [][statsRun' # statsRun
       => /\ messages' = messages
          /\ contacts' = contacts
          /\ \A c \in CampaignIds :
                campaigns'[c] # campaigns[c]
                => \E r \in BagToSet(statsRun) :
                      r.c = c /\ Count(statsRun', r) < Count(statsRun, r)]_vars

\* C29 witness: a pass has counted the sent message of campaign 1 while campaign 2,
\* which has contacts of its own, still shows the counters its contacts gave it.
C29_OtherCampaignKeepsCounters ==
    /\ statsRun = EmptyBag
    /\ campaigns[1].total_sent = 1
    /\ \E m \in MessageIds : messages[m].campaign = 1 /\ messages[m].status = "sent"
    /\ campaigns[2].total_contacts > 0
    /\ campaigns[2].total_pending > 0
    /\ campaigns[2].total_sent = 0

\* C31: in every state no message is DELIVERED and total_delivered of every campaign
\* is 0 (no delivery receipt is ever taken in by the tasks or the API).
C31_NeverDelivered ==
    /\ \A m \in DOMAIN messages : messages[m].status # "delivered"
    /\ \A c \in CampaignIds : campaigns[c].total_delivered = 0

\* C31 witness: the gateway has accepted a message and a stats pass has counted it as
\* sent; the message is SENT, not DELIVERED, and total_delivered is 0.
C31_SentCountedNotDelivered ==
    \E m \in MessageIds :
        /\ messages[m].status = "sent"
        /\ gateway[m].ok > 0
        /\ campaigns[messages[m].campaign].total_sent = 1
        /\ campaigns[messages[m].campaign].total_delivered = 0
        /\ campaigns[messages[m].campaign].status = "completed"

\* C32 as stated: a step that answers an update or delete request with a refusal
\* changes no campaign, contact or message; a step in which an update or delete
\* request reaches the store of a campaign that is PROCESSING or IN_PROGRESS changes
\* nothing either; and no message of a campaign that is PROCESSING or IN_PROGRESS is
\* removed.
C32_ActiveCampaignUntouched ==
    [][/\ (/\ response' # response
           /\ response'.detail \in {"Cannot update an active campaign",
                                    "Cannot delete an active campaign"})
          => UNCHANGED <<contacts, campaigns, messages>>
       /\ \A e \in ExecIds :
             (/\ exec[e].pc \in {"updating", "deleting"}
              /\ exec'[e].pc = "idle"
              /\ campaigns[exec[e].c].exists
              /\ is_active(exec[e].c))
             => UNCHANGED <<contacts, campaigns, messages>>
       /\ \A m \in MessageIds :
             is_active(messages[m].campaign) => m \in MessageIds']_vars

\* C33 as stated: whenever a campaign is COMPLETED, none of its messages is PENDING or
\* SENDING and no send job for one of its messages is queued, scheduled or running.
C33_CompletedHasNoWorkInFlight ==
    \A m \in MessageIds :
        campaigns[messages[m].campaign].status = "completed"
        => /\ messages[m].status \notin {"pending", "sending"}
           /\ OutstandingSends(m) = 0

\* C34 as stated: for every message at most one gateway call returns success.
C34_AtMostOneAcceptedCall ==
    \A m \in DOMAIN messages : gateway[m].ok <= 1

\* C35 as stated: in every state every message has retry_count <= sms_retry_attempts.
C35_RetryCountWithinCap ==
    \A m \in DOMAIN messages : messages[m].retry_count <= sms_retry_attempts

\* C36 as stated: the number of gateway calls made for one message never exceeds
\* sms_retry_attempts.
C36_CallsWithinCap ==
    \A m \in DOMAIN messages : gateway[m].calls <= sms_retry_attempts

\* C37 as stated: when a stats pass commits and leaves no job queued or running and
\* no request in flight, the counters it leaves behind for its campaign equal the
\* numbers of the campaign's messages per status.
C37_CountersExactWhenIdle ==
    [][\A r \in BagToSet(statsRun) :
          (Count(statsRun', r) < Count(statsRun, r) /\ Quiescent')
          => /\ campaigns'[r.c].total_sent = Tally(r.c, {"sent", "delivered"})
             /\ campaigns'[r.c].total_delivered = Tally(r.c, {"delivered"})
             /\ campaigns'[r.c].total_failed = Tally(r.c, {"failed", "invalid_number"})
             /\ campaigns'[r.c].total_pending = Tally(r.c, {"pending"})]_vars

\* C38 as stated: at any time at most one send job per message is outstanding
\* (queued, scheduled by the automatic backoff, or running).
C38_OneOutstandingSendJob ==
    \A m \in DOMAIN messages : OutstandingSends(m) <= 1

\* C39 as stated: when retry_failed_messages commits its PENDING marks, every message
\* it marks is still FAILED as selected (no send job has acted on it since the
\* enqueue) and a send job for it is outstanding, so the mark overwrites no outcome
\* and leaves no message PENDING without a job.
C39_ResetCommittedBeforeJobActs ==
    [][\A r \in BagToSet(retryRun) :
          Count(retryRun', r) < Count(retryRun, r)
          => \A m \in r.msgs :
                /\ messages[m].status = "failed"
                /\ OutstandingSends(m) >= 1]_vars

====
